---- MODULE Spec2Model ----
(***************************************************************************)
(* Notification dispatch engine of convitecerto-backend.                   *)
(*                                                                         *)
(* The model follows services/NotificationService.js, the event bus        *)
(* services/notificationEvents.js, routes/notification.routes.js and the   *)
(* tables of the add_notifications migration.  One step of the model is    *)
(* one stretch of JavaScript between two awaits: the database statement a  *)
(* handler awaits takes effect atomically, and handlers interleave at      *)
(* their awaits only.                                                      *)
(***************************************************************************)
EXTENDS Integers, Sequences, FiniteSets, TLC

VARIABLES
  services,       \* this.providers of every NotificationService constructed
  notifications,  \* table Notification
  settings,       \* table NotificationSettings
  deliveryLog,    \* table NotificationDeliveryLog, keyed by the row's id
  pipelines,      \* the event-handler invocations started so far
  requests,       \* GET /api/notifications/settings calls
  lastPut,        \* the last PUT /api/notifications/settings handled
  nEvents,        \* events published on the bus so far
  nPuts,          \* PUT /settings requests handled so far
  faults,         \* store statements that have thrown so far
  lastCall,       \* the last call of the query API, with its result
  bus,            \* notificationEvents: its listeners and its last emit
  guests,         \* table Guest: status and owner of the guest's event
  rsvps,          \* the PUT /:id/rsvp requests handled so far
  sockets,        \* io.sockets.sockets, and the sockets that have left it
  connectedUsers, \* WebSocketNotificationProvider.connectedUsers
  lastSend        \* the last send of the WebSocket provider

\* The state of the RSVP route and the state of the WebSocket provider.
rsvpVars == <<guests, rsvps>>
wsVars == <<sockets, connectedUsers, lastSend>>

vars == <<services, notifications, settings, deliveryLog, pipelines,
          requests, lastPut, nEvents, nPuts, faults, lastCall, bus,
          guests, rsvps, sockets, connectedUsers, lastSend>>

----------------------------------------------------------------------------
(* Bounds of the model. *)

MaxPipelines == 2
MaxServices == 2
MaxRequests == 2
MaxPuts == 2
MaxFaults == 2
MaxNotifications == 3
MaxDirect == 2
MaxEvents == 2
MaxSubscribers == 2
MaxPage == 2
MaxLimit == 2
MaxRsvps == 2
MaxSockets == 2

Users == {"u1", "u2"}

----------------------------------------------------------------------------
(* Data model. *)

\* An optional value: <<>> is null / undefined, <<v>> is the value v.
None == <<>>
Some(v) == <<v>>

Channels == {"email", "websocket", "push"}
ChannelOrder == <<"email", "websocket", "push">>

\* The names a caller passes to registerProvider and to
\* sendNotificationThroughChannels: the settings channels, and the name
\* 'test' the repository's delivery-log test registers.
ChannelNames == Channels \cup {"test"}

\* The values of the enum DeliveryChannel, the type of column channel.
DeliveryChannel == {"EMAIL", "WEBSOCKET", "PUSH", "SMS"}

MapKeys == {"guestConfirmed", "guestDeclined", "inviteSent", "eventReminder"}
SettingsKeys == MapKeys \cup {"digestFrequency", "quietHoursStart",
                              "quietHoursEnd", "timezone"}

ChannelMap(e, w, p) == [email |-> e, websocket |-> w, push |-> p]

\* The column defaults of table NotificationSettings.
DbDefault(f) ==
  CASE f = "guestConfirmed" -> ChannelMap(TRUE, TRUE, FALSE)
    [] f = "guestDeclined" -> ChannelMap(TRUE, TRUE, FALSE)
    [] f = "inviteSent" -> ChannelMap(FALSE, TRUE, FALSE)
    [] f = "eventReminder" -> ChannelMap(TRUE, FALSE, TRUE)
    [] f = "digestFrequency" -> "NONE"
    [] f = "quietHoursStart" -> None
    [] f = "quietHoursEnd" -> None
    [] f = "timezone" -> "America/Sao_Paulo"

\* prisma.notificationSettings.create / the create branch of upsert: the
\* columns named in data, the column defaults for the others.
NewSettingsRow(userId, data) ==
  [f \in SettingsKeys \cup {"userId"} |->
     IF f = "userId" THEN userId
     ELSE IF f \in DOMAIN data THEN data[f] ELSE DbDefault(f)]

\* A create whose data switches email on for INVITE_SENT.
InviteEmailDefaults ==
  [guestConfirmed |-> ChannelMap(TRUE, TRUE, FALSE),
   guestDeclined |-> ChannelMap(TRUE, TRUE, FALSE),
   inviteSent |-> ChannelMap(TRUE, TRUE, FALSE),
   eventReminder |-> ChannelMap(TRUE, FALSE, TRUE)]
\* The data of the create in getUserNotificationSettings.
ServiceDefaults ==
  [guestConfirmed |-> ChannelMap(TRUE, TRUE, FALSE),
   guestDeclined |-> ChannelMap(TRUE, TRUE, FALSE),
   inviteSent |-> ChannelMap(FALSE, TRUE, FALSE),
   eventReminder |-> ChannelMap(TRUE, FALSE, TRUE)]

RowsOf(rows, userId) == {i \in DOMAIN rows : rows[i].userId = userId}

\* prisma.notificationSettings.findUnique({ where: { userId } }).
FindUnique(rows, userId) ==
  IF RowsOf(rows, userId) = {} THEN None
  ELSE Some(rows[CHOOSE i \in RowsOf(rows, userId) : TRUE])

\* A table without the unique index: no insert is rejected.
NoUniqueIndex(rows, userId) == FALSE
\* The unique index NotificationSettings_userId_key rejects an insert (P2002).
UniqueViolation(rows, userId) == RowsOf(rows, userId) # {}

----------------------------------------------------------------------------
(* PUT /settings: validation and upsert. *)

\* The default Joi fills in for a key the body leaves out.
JoiMapDefault(k, c) ==
  CASE k = "guestConfirmed" -> ChannelMap(TRUE, TRUE, FALSE)[c]
    [] k = "guestDeclined" -> ChannelMap(TRUE, TRUE, FALSE)[c]
    [] k = "inviteSent" -> ChannelMap(FALSE, TRUE, FALSE)[c]
    [] k = "eventReminder" -> ChannelMap(TRUE, FALSE, TRUE)[c]

JoiScalarDefault(k) ==
  CASE k = "digestFrequency" -> "NONE"
    [] k = "timezone" -> "America/Sao_Paulo"

JoiDefaultedKeys == MapKeys \cup {"digestFrequency", "timezone"}

\* notificationSettingsSchema.validate(body).error: an unknown key, at the
\* top level or inside a channel map, is rejected.
ValidationError(body) ==
  \/ ~(DOMAIN body \subseteq SettingsKeys)
  \/ \E k \in DOMAIN body \cap MapKeys : ~(DOMAIN body[k] \subseteq Channels)

\* notificationSettingsSchema.validate(body).value: the body with every
\* default applied.
Validate(body) ==
  [k \in DOMAIN body \cup JoiDefaultedKeys |->
     IF k \in MapKeys
     THEN [c \in Channels |->
             IF k \in DOMAIN body /\ c \in DOMAIN body[k]
             THEN body[k][c] ELSE JoiMapDefault(k, c)]
     ELSE IF k \in DOMAIN body THEN body[k] ELSE JoiScalarDefault(k)]

\* The update branch of upsert: the columns named in data are overwritten.
UpdateRow(row, data) ==
  [f \in DOMAIN row |-> IF f \in DOMAIN data THEN data[f] ELSE row[f]]

\* prisma.notificationSettings.upsert({ where: { userId }, update, create }).
Upsert(rows, userId, value) ==
  IF RowsOf(rows, userId) = {}
  THEN Append(rows, NewSettingsRow(userId, value))
  ELSE [i \in DOMAIN rows |->
          IF rows[i].userId = userId THEN UpdateRow(rows[i], value)
          ELSE rows[i]]

\* Request bodies of PUT /settings: the body of the repository's test, one
\* that switches the only default channel of INVITE_SENT off, partial ones,
\* and one with a key the schema does not know.
TestBody ==
  [guestConfirmed |-> ChannelMap(FALSE, TRUE, FALSE),
   guestDeclined |-> ChannelMap(TRUE, FALSE, FALSE)]
InviteOffBody == [inviteSent |-> [websocket |-> FALSE]]
\* A body that switches push on for GUEST_CONFIRMED, a channel index.js
\* registers no provider for.
PushOnBody == [guestConfirmed |-> [push |-> TRUE]]
PutBodies ==
  { TestBody, InviteOffBody,
    [guestConfirmed |-> [email |-> FALSE]],
    [digestFrequency |-> "DAILY", quietHoursStart |-> Some(22)],
    [guestConfirmed |-> [email |-> FALSE], sms |-> TRUE] }

----------------------------------------------------------------------------
(* NotificationService: classification, channel selection, delivery log. *)

\* A switch whose default branch does not return: every status is classified.
ClassifyAll(newStatus) ==
  CASE newStatus = "confirmed" -> Some("GUEST_CONFIRMED")
    [] newStatus = "declined" -> Some("GUEST_DECLINED")
    [] OTHER -> Some("GUEST_PENDING")
\* handleGuestStatusChanged, the switch on newStatus: the notification type,
\* or None for a status that produces no notification.
Classify(newStatus) ==
  CASE newStatus = "confirmed" -> Some("GUEST_CONFIRMED")
    [] newStatus = "declined" -> Some("GUEST_DECLINED")
    [] OTHER -> None

\* A switch whose default branch falls back to the guestConfirmed column.
ChannelConfigFallback(row, type) ==
  CASE type = "GUEST_CONFIRMED" -> Some(row.guestConfirmed)
    [] type = "GUEST_DECLINED" -> Some(row.guestDeclined)
    [] type = "INVITE_SENT" -> Some(row.inviteSent)
    [] type = "EVENT_REMINDER" -> Some(row.eventReminder)
    [] OTHER -> Some(row.guestConfirmed)
\* getActiveChannels, the switch on notificationType: the settings column
\* that holds the type's channel map, or None for a type that has none.
ChannelConfig(row, type) ==
  CASE type = "GUEST_CONFIRMED" -> Some(row.guestConfirmed)
    [] type = "GUEST_DECLINED" -> Some(row.guestDeclined)
    [] type = "INVITE_SENT" -> Some(row.inviteSent)
    [] type = "EVENT_REMINDER" -> Some(row.eventReminder)
    [] OTHER -> None

\* getActiveChannels(settings, notificationType).
GetActiveChannels(row, type) ==
  IF ChannelConfig(row, type) = None THEN <<>>
  ELSE LET cfg == ChannelConfig(row, type)[1]
       IN SelectSeq(ChannelOrder, LAMBDA c : cfg[c])

\* channel.toUpperCase(), the value stored in column channel.
ToUpperCase(c) ==
  CASE c = "email" -> "EMAIL"
    [] c = "websocket" -> "WEBSOCKET"
    [] c = "push" -> "PUSH"
    [] c = "test" -> "TEST"

\* A statement on the delivery log that names a channel outside the enum
\* DeliveryChannel is rejected.
EnumViolation(c) == ToUpperCase(c) \notin DeliveryChannel

\* createNotification: the row prisma.notification.create inserts; data is
\* the event payload, read takes its column default false.
NewNotification(p, type) ==
  [userId |-> p.userId, type |-> type, read |-> FALSE, data |-> p.ev]

\* The row the dispatcher inserts before it calls the provider: status
\* PENDING, deliveredAt and errorMessage null, retryCount at its default.
NewDeliveryLog(nid, c) ==
  [notificationId |-> nid, channel |-> ToUpperCase(c), status |-> "PENDING",
   deliveredAt |-> FALSE, errorMessage |-> None, retryCount |-> 0]

\* What provider.send(notification, eventData) can do: resolve a
\* DeliveryResult { success, error? } or throw.
SendOutcomes == {"ok", "fail", "failNoError", "throw"}

\* The service index.js constructs holds WebSocketNotificationProvider and
\* EmailNotificationProvider, whose send catches every exception and
\* resolves { success: true } or { success: false, error }; a service
\* constructed elsewhere holds whatever providers its caller registers.
ProductionService == 1
OutcomesOf(svc) ==
  IF svc = ProductionService THEN {"ok", "fail"} ELSE SendOutcomes
Success(res) == res = "ok"
\* result.error: undefined when the result carries no error.
ResultError(res) == IF res = "fail" THEN Some("entrega recusada") ELSE None

\* The update of the delivery log by id once provider.send has resolved.
UpdateById(log, id, res) ==
  [log EXCEPT ![id].status = IF Success(res) THEN "SENT" ELSE "FAILED",
              ![id].deliveredAt = Success(res),
              ![id].errorMessage = ResultError(res)]

\* An updateMany whose where clause names the channel and the status only.
UpdateManyByChannel(log, nid, c, message) ==
  [i \in DOMAIN log |->
     IF log[i].channel = ToUpperCase(c) /\ log[i].status = "PENDING"
     THEN [log[i] EXCEPT !.status = "FAILED", !.errorMessage = Some(message)]
     ELSE log[i]]
\* The updateMany of the catch branch: every PENDING row of the
\* notification and channel becomes FAILED with error.message.
UpdateManyFailed(log, nid, c, message) ==
  [i \in DOMAIN log |->
     IF /\ log[i].notificationId = nid
        /\ log[i].channel = ToUpperCase(c)
        /\ log[i].status = "PENDING"
     THEN [log[i] EXCEPT !.status = "FAILED", !.errorMessage = Some(message)]
     ELSE log[i]]

\* A channel attempt of one dispatch; st is the await it stands at, sends
\* the number of times it has called provider.send.
IdleAttempt == [st |-> "none", log |-> None, res |-> "none", err |-> "",
                fault |-> FALSE, sends |-> 0]
Settled(a) == a.st \in {"none", "skip", "settled", "rejected", "aborted"}

\* A dispatch without the provider lookup: every listed channel is attempted.
StartWithoutLookup(provs, channels) ==
  [c \in ChannelNames |->
     IF \E k \in DOMAIN channels : channels[k] = c
     THEN [IdleAttempt EXCEPT !.st = "create"]
     ELSE IdleAttempt]
\* sendNotificationThroughChannels up to the first await of every channel's
\* closure: a channel without a provider is skipped with a warning.
StartAttempts(provs, channels) ==
  [c \in ChannelNames |->
     IF \E k \in DOMAIN channels : channels[k] = c
     THEN [IdleAttempt EXCEPT !.st = IF c \in provs THEN "create" ELSE "skip"]
     ELSE IdleAttempt]

\* A dispatch in which one channel's exception cuts the unsettled attempts
\* of the other channels short.
ThrowAbortsRest(att, c, message, isFault) ==
  [d \in DOMAIN att |->
     IF d = c
     THEN [att[d] EXCEPT !.st = "catch", !.err = message,
                         !.fault = @ \/ isFault]
     ELSE IF Settled(att[d]) THEN att[d] ELSE [att[d] EXCEPT !.st = "aborted"]]
\* An exception inside one channel's closure is caught by that closure's
\* own try/catch: only that attempt goes to its catch branch.
CatchInAttempt(att, c, message, isFault) ==
  [att EXCEPT ![c].st = "catch", ![c].err = message, ![c].fault = @ \/ isFault]

\* A dispatch that returns with the first attempt that settles.
AwaitFirst(p) ==
  IF \/ \E c \in DOMAIN p.att : p.att[c].st \in {"settled", "rejected"}
     \/ \A c \in DOMAIN p.att : Settled(p.att[c])
  THEN [p EXCEPT !.pc = "done"] ELSE p
\* Promise.allSettled(promises): the dispatch, and with it the handler,
\* returns once every attempt has settled.
AwaitAll(p) ==
  IF \A c \in DOMAIN p.att : Settled(p.att[c])
  THEN [p EXCEPT !.pc = "done"] ELSE p

\* An invite.sent handler without the early return on an empty channel set.
PersistWhateverChannels(p, row, provs) ==
  IF p.kind = "guest"
  THEN LET channels == GetActiveChannels(row, p.type)
       IN AwaitAll([p EXCEPT !.seen = Some(row), !.channels = channels,
                             !.pc = "dispatch",
                             !.att = StartAttempts(provs, channels)])
  ELSE [p EXCEPT !.seen = Some(row),
                 !.channels = GetActiveChannels(row, "INVITE_SENT"),
                 !.type = "INVITE_SENT", !.pc = "persist"]
\* handleGuestStatusChanged / handleInviteSent after the settings have been
\* resolved, up to their next await.
AfterSettings(p, row, provs) ==
  IF p.kind = "guest"
  THEN LET channels == GetActiveChannels(row, p.type)
       IN AwaitAll([p EXCEPT !.seen = Some(row), !.channels = channels,
                             !.pc = "dispatch",
                             !.att = StartAttempts(provs, channels)])
  ELSE LET channels == GetActiveChannels(row, "INVITE_SENT")
       IN IF Len(channels) = 0
          THEN [p EXCEPT !.seen = Some(row), !.channels = channels,
                         !.pc = "done"]
          ELSE [p EXCEPT !.seen = Some(row), !.channels = channels,
                         !.type = "INVITE_SENT", !.pc = "persist"]

\* The handler after createNotification has resolved, up to its next await.
AfterPersist(p, nid, provs) ==
  IF p.kind = "guest"
  THEN [p EXCEPT !.nid = nid, !.pc = "find"]
  ELSE AwaitAll([p EXCEPT !.nid = nid, !.pc = "dispatch",
                          !.att = StartAttempts(provs, p.channels)])

\* The listener a NotificationService registered for an event, run by
\* emit() up to its first await.
StartHandler(ev, kind, u, newStatus, svc) ==
  LET p == [ev |-> ev, kind |-> kind, userId |-> u, newStatus |-> newStatus,
            svc |-> svc, pc |-> "done", type |-> "", nid |-> 0,
            seen |-> None, channels |-> <<>>,
            att |-> [c \in ChannelNames |-> IdleAttempt]]
  IN IF kind = "invite" THEN [p EXCEPT !.pc = "find"]
     ELSE IF Classify(newStatus) = None THEN p
     ELSE [p EXCEPT !.pc = "persist", !.type = Classify(newStatus)[1]]

GuestStatuses == {"confirmed", "declined", "pending"}

----------------------------------------------------------------------------
(* The event bus: a Node EventEmitter with one emit helper per event. *)

\* The events of the bus, by the short names the handlers are modelled
\* under: guest.status.changed, invite.sent, event.created, event.updated,
\* event.reminder, system.alert.
EventKinds == {"guest", "invite", "created", "updated", "reminder", "alert"}

\* The listener setupEventListeners registers for every event: an async
\* function that awaits the event's handler.
ServiceListener == [handler |-> "service", event |-> "all"]

\* What a listener of another subscriber can be: a plain function that
\* returns, a plain function that throws, an async function whose body
\* fails.
Handlers == {"sync", "syncThrows", "asyncRejects"}

\* The listeners registered for an event, in registration order.
ListenersOf(listeners, kind) ==
  SelectSeq(listeners, LAMBDA l : l.event \in {kind, "all"})

\* emit() calls the listeners one after the other, synchronously: an
\* exception of a plain listener leaves emit() and the listeners after it
\* are not called; an async listener returns its promise, which emit()
\* drops.
Throws(ls) == \E k \in DOMAIN ls : ls[k].handler = "syncThrows"
Called(ls) ==
  IF Throws(ls)
  THEN SubSeq(ls, 1, CHOOSE k \in DOMAIN ls :
                       /\ ls[k].handler = "syncThrows"
                       /\ \A j \in 1..(k - 1) : ls[j].handler # "syncThrows")
  ELSE ls

\* The timestamp of the payload the helper passes to emit():
\* emitGuestStatusChanged keeps the payload's timestamp when it has one,
\* every other helper writes new Date() over it.
Stamp(kind, payload) ==
  [payload EXCEPT !.timestamp =
     IF kind = "guest" /\ payload.timestamp # None
     THEN payload.timestamp ELSE Some("new Date()")]

----------------------------------------------------------------------------
(* The query API: markAsRead, mark-all-read, getUserNotifications.  A row's *)
(* position in the table is its id and the order of createdAt.             *)

\* An updateMany that flips the read flag of the user's row.
ToggleReadRows(rows, id, userId) ==
  [n \in DOMAIN rows |->
     IF n = id /\ rows[n].userId = userId
     THEN [rows[n] EXCEPT !.read = ~@] ELSE rows[n]]
\* An updateMany keyed by id alone.
MarkReadById(rows, id, userId) ==
  [n \in DOMAIN rows |->
     IF n = id THEN [rows[n] EXCEPT !.read = TRUE] ELSE rows[n]]
\* markAsRead: updateMany where { id, userId } data { read: true }.
MarkAsReadRows(rows, id, userId) ==
  [n \in DOMAIN rows |->
     IF n = id /\ rows[n].userId = userId
     THEN [rows[n] EXCEPT !.read = TRUE] ELSE rows[n]]

\* An updateMany without the userId filter.
MarkEveryUnread(rows, userId) ==
  [n \in DOMAIN rows |->
     IF ~rows[n].read THEN [rows[n] EXCEPT !.read = TRUE] ELSE rows[n]]
\* PATCH /mark-all-read: updateMany where { userId, read: false }.
MarkAllReadRows(rows, userId) ==
  [n \in DOMAIN rows |->
     IF rows[n].userId = userId /\ ~rows[n].read
     THEN [rows[n] EXCEPT !.read = TRUE] ELSE rows[n]]

\* A where clause that lost its userId.
MatchesAnyUser(row, userId, unreadOnly, type) ==
  /\ unreadOnly => ~row.read
  /\ type # None => row.type = type[1]
\* The where clause of getUserNotifications: { userId }, plus read: false
\* when unreadOnly, plus type when a type is given.
Matches(row, userId, unreadOnly, type) ==
  /\ row.userId = userId
  /\ unreadOnly => ~row.read
  /\ type # None => row.type = type[1]

\* prisma.notification.count({ where }).
Count(rows, userId, unreadOnly, type) ==
  Cardinality({n \in DOMAIN rows : Matches(rows[n], userId, unreadOnly, type)})

\* The ids of a set of rows, orderBy createdAt desc.
RECURSIVE NewestFirst(_)
NewestFirst(ids) ==
  IF ids = {} THEN <<>>
  ELSE LET newest == CHOOSE n \in ids : \A m \in ids : m <= n
       IN <<newest>> \o NewestFirst(ids \ {newest})

\* A skip that takes page for a 0-indexed page number.
SkipFromZero(page, limit) == page * limit
\* skip: (page - 1) * limit.
Skip(page, limit) == (page - 1) * limit

\* findMany({ where, orderBy, skip, take }).
FindMany(rows, userId, unreadOnly, type, skip, take) ==
  LET all == NewestFirst({n \in DOMAIN rows :
                            Matches(rows[n], userId, unreadOnly, type)})
      last == IF skip + take < Len(all) THEN skip + take ELSE Len(all)
  IN SubSeq(all, skip + 1, last)

\* Math.ceil(total / limit), limit >= 1.
Ceil(total, limit) == (total + limit - 1) \div limit

\* The default of limit in getUserNotifications and in router.get('/').
DefaultLimit == 20
DefaultPage == 1

\* An option of the options object, or its default when it is left out.
Option(options, key, default) ==
  IF key \in DOMAIN options THEN options[key] ELSE default

\* getUserNotifications(userId, options): the ids of the page, the
\* pagination record and the unread count.
GetUserNotifications(rows, userId, options) ==
  LET page == Option(options, "page", DefaultPage)
      limit == Option(options, "limit", DefaultLimit)
      unreadOnly == Option(options, "unreadOnly", FALSE)
      type == Option(options, "type", None)
      total == Count(rows, userId, unreadOnly, type)
  IN [notifications |->
        FindMany(rows, userId, unreadOnly, type, Skip(page, limit), limit),
      pagination |-> [page |-> page, limit |-> limit, total |-> total,
                      pages |-> Ceil(total, limit)],
      unreadCount |-> Count(rows, userId, TRUE, None)]

----------------------------------------------------------------------------

\* The settings table a process can find at startup: empty, or holding the
\* row an earlier PUT /settings of one user left.
StoredTables ==
  {<<>>} \cup { Upsert(<<>>, "u1", Validate(body)) :
                  body \in {TestBody, InviteOffBody, PushOnBody} }

\* The guests of the database: one whose event has an owner, one whose
\* event has none; both have not answered yet.
StoredGuests ==
  [g \in {"g1", "g2"} |->
     [status |-> "pending", owner |-> IF g = "g1" THEN Some("u1") ELSE None]]

\* The state once index.js has constructed the service and the providers
\* and registered the websocket and email providers; no socket has
\* connected yet.
Init ==
  /\ services = << {"websocket", "email"} >>
  /\ notifications = <<>>
  /\ settings \in StoredTables
  /\ deliveryLog = <<>>
  /\ pipelines = <<>>
  /\ requests = <<>>
  /\ lastPut = None
  /\ nEvents = 0
  /\ nPuts = 0
  /\ faults = 0
  /\ lastCall = None
  /\ bus = [listeners |-> <<ServiceListener>>, last |-> None]
  /\ guests = StoredGuests
  /\ rsvps = <<>>
  /\ sockets = <<>>
  /\ connectedUsers = [u \in Users |-> None]
  /\ lastSend = None

\* router.put('/settings'): 400 on a validation error, else the upsert.
PutSettings(u, body) ==
  /\ nPuts < MaxPuts
  /\ nPuts' = nPuts + 1
  /\ IF ValidationError(body)
     THEN /\ settings' = settings
          /\ lastPut' = Some([userId |-> u, body |-> body, code |-> 400,
                              before |-> FindUnique(settings, u)])
     ELSE /\ settings' = Upsert(settings, u, Validate(body))
          /\ lastPut' = Some([userId |-> u, body |-> body, code |-> 200,
                              before |-> FindUnique(settings, u)])
  /\ UNCHANGED <<rsvpVars, wsVars, services, notifications, deliveryLog, pipelines, requests,
                 nEvents, faults, lastCall, bus>>

\* router.get('/settings') enters getUserNotificationSettings.
GetSettingsStart(u) ==
  /\ Len(requests) < MaxRequests
  /\ requests' = Append(requests, [userId |-> u, pc |-> "find", code |-> 0,
                                   row |-> None])
  /\ UNCHANGED <<rsvpVars, wsVars, services, notifications, settings, deliveryLog, pipelines,
                 lastPut, nEvents, nPuts, faults, lastCall, bus>>

\* getUserNotificationSettings, the findUnique it awaits.
GetSettingsFind(r) ==
  /\ requests[r].pc = "find"
  /\ LET found == FindUnique(settings, requests[r].userId)
     IN requests' = [requests EXCEPT ![r] =
          IF found = None THEN [@ EXCEPT !.pc = "create"]
          ELSE [@ EXCEPT !.pc = "done", !.code = 200, !.row = found]]
  /\ UNCHANGED <<rsvpVars, wsVars, services, notifications, settings, deliveryLog, pipelines,
                 lastPut, nEvents, nPuts, faults, lastCall, bus>>

\* getUserNotificationSettings, the create it awaits when no row was found;
\* a rejected insert reaches the route's catch, which answers 500.
GetSettingsCreate(r) ==
  /\ requests[r].pc = "create"
  /\ LET u == requests[r].userId
         row == NewSettingsRow(u, ServiceDefaults)
     IN IF UniqueViolation(settings, u)
        THEN /\ settings' = settings
             /\ requests' = [requests EXCEPT ![r].pc = "done", ![r].code = 500]
        ELSE /\ settings' = Append(settings, row)
             /\ requests' = [requests EXCEPT ![r].pc = "done",
                               ![r].code = 200, ![r].row = Some(row)]
  /\ UNCHANGED <<rsvpVars, wsVars, services, notifications, deliveryLog, pipelines, lastPut,
                 nEvents, nPuts, faults, lastCall, bus>>

\* new NotificationService(prisma, logger): an empty provider map, and one
\* more listener per event on the shared notificationEvents.
NewNotificationService ==
  /\ Len(services) < MaxServices
  /\ services' = Append(services, {})
  /\ bus' = [bus EXCEPT !.listeners = Append(@, ServiceListener)]
  /\ UNCHANGED <<rsvpVars, wsVars, notifications, settings, deliveryLog, pipelines, requests,
                 lastPut, nEvents, nPuts, faults, lastCall>>

\* registerProvider(name, provider), before the service handles events.
RegisterProvider(s, name) ==
  /\ s # ProductionService
  /\ name \notin services[s]
  /\ \A i \in DOMAIN pipelines : pipelines[i].svc # s
  /\ services' = [services EXCEPT ![s] = @ \cup {name}]
  /\ UNCHANGED <<rsvpVars, wsVars, notifications, settings, deliveryLog, pipelines, requests,
                 lastPut, nEvents, nPuts, faults, lastCall, bus>>

\* notificationEvents.on(event, handler) by a subscriber other than the
\* service.
Subscribe(event, handler) ==
  /\ Len(bus.listeners) - Len(services) < MaxSubscribers
  /\ bus' = [bus EXCEPT !.listeners =
                Append(@, [handler |-> handler, event |-> event])]
  /\ UNCHANGED <<rsvpVars, wsVars, services, notifications, settings, deliveryLog, pipelines,
                 requests, lastPut, nEvents, nPuts, faults, lastCall>>

\* An emit helper of the bus called with a payload: the helper stamps the
\* payload and emit() calls the listeners of the event in registration
\* order; every listener of a service that is called runs its handler up
\* to the handler's first await.
Deliver(kind, payload) ==
  /\ nEvents < MaxEvents
  /\ Len(pipelines) + Len(services) <= MaxPipelines
  /\ nEvents' = nEvents + 1
  /\ LET called == Called(ListenersOf(bus.listeners, kind))
         m == Len(SelectSeq(called, LAMBDA l : l.handler = "service"))
     IN /\ pipelines' = pipelines \o
             IF kind \in {"guest", "invite"}
             THEN [s \in 1..m |->
                     StartHandler(nEvents + 1, kind, payload.userId,
                                  payload.newStatus, s)]
             ELSE <<>>
        /\ bus' = [bus EXCEPT !.last =
             Some([kind |-> kind, payload |-> payload,
                   delivered |-> Stamp(kind, payload),
                   listeners |-> Len(ListenersOf(bus.listeners, kind)),
                   called |-> Len(called),
                   threw |-> Throws(ListenersOf(bus.listeners, kind))])]
  /\ UNCHANGED <<wsVars, services, notifications, settings, deliveryLog,
                 requests, lastPut, nPuts, faults, lastCall>>

\* An emit helper called by a publisher that changes nothing else.
Publish(kind, payload) == Deliver(kind, payload) /\ UNCHANGED rsvpVars

\* An emit helper called with a payload that carries no timestamp.
Emit(kind, u, newStatus) ==
  Publish(kind, [userId |-> u, newStatus |-> newStatus, timestamp |-> None])

\* notificationEvents.emitGuestStatusChanged(eventData).
EmitGuestStatusChanged(u, newStatus) == Emit("guest", u, newStatus)

\* notificationEvents.emitInviteSent(eventData).
EmitInviteSent(u) == Emit("invite", u, "")

\* The token of an 'authenticate' message: the JWT of a user (written as
\* the user's id), a string that is no token of anyone, or none.
Tokens == Users \cup {"forged", "none"}

\* The data of an 'authenticate' message: an object with userId and token,
\* or no object.
AuthMessages ==
  {None} \cup {Some([userId |-> u, token |-> tk]) : u \in Users, tk \in Tokens}

\* isUserConnected(userId): this.connectedUsers.has(userId).
IsUserConnected(userId) == connectedUsers[userId] # None

\* io.on('connection'): a new socket, not authenticated.
SocketConnect ==
  /\ Len(sockets) < MaxSockets
  /\ sockets' = Append(sockets, [connected |-> TRUE, userId |-> None,
                                  authAs |-> {}, proved |-> {}])
  /\ UNCHANGED <<rsvpVars, connectedUsers, lastSend, services, notifications,
                 settings, deliveryLog, pipelines, requests, lastPut, nEvents,
                 nPuts, faults, lastCall, bus>>

\* socket.on('authenticate'): the user id of the message is mapped to the
\* socket and stored on the socket; the token is not read.  A message
\* without data makes the destructuring throw, and the catch answers
\* { success: false }.  authAs and proved record, for the properties, the
\* users the socket has authenticated as and the users it has presented a
\* token of.
Authenticate(s, data) ==
  /\ sockets[s].connected
  /\ IF data = None
     THEN UNCHANGED <<sockets, connectedUsers>>
     ELSE /\ connectedUsers' =
               [connectedUsers EXCEPT ![data[1].userId] = Some(s)]
          /\ sockets' = [sockets EXCEPT
               ![s].userId = Some(data[1].userId),
               ![s].authAs = @ \cup {data[1].userId},
               ![s].proved = @ \cup (IF data[1].token = data[1].userId
                                     THEN {data[1].userId} ELSE {})]
  /\ UNCHANGED <<rsvpVars, lastSend, services, notifications, settings,
                 deliveryLog, pipelines, requests, lastPut, nEvents, nPuts,
                 faults, lastCall, bus>>

\* The 'disconnect' handler of a socket: the entry of socket.userId is
\* deleted, whichever socket it names.
OnDisconnect(map, socket) ==
  IF socket.userId = None THEN map
  ELSE [map EXCEPT ![socket.userId[1]] = None]

\* socket.on('disconnect'): the socket leaves io.sockets.sockets.
SocketDisconnect(s) ==
  /\ sockets[s].connected
  /\ sockets' = [sockets EXCEPT ![s].connected = FALSE]
  /\ connectedUsers' = OnDisconnect(connectedUsers, sockets[s])
  /\ UNCHANGED <<rsvpVars, lastSend, services, notifications, settings,
                 deliveryLog, pipelines, requests, lastPut, nEvents, nPuts,
                 faults, lastCall, bus>>

\* disconnectUser(userId): the mapped socket, when it still exists, is
\* disconnected, which runs its 'disconnect' handler; then the entry of
\* userId is deleted.
DisconnectUser(userId) ==
  /\ IF connectedUsers[userId] = None
     THEN UNCHANGED <<sockets, connectedUsers>>
     ELSE LET s == connectedUsers[userId][1] IN
          IF sockets[s].connected
          THEN /\ sockets' = [sockets EXCEPT ![s].connected = FALSE]
               /\ connectedUsers' =
                    [OnDisconnect(connectedUsers, sockets[s])
                       EXCEPT ![userId] = None]
          ELSE /\ sockets' = sockets
               /\ connectedUsers' = [connectedUsers EXCEPT ![userId] = None]
  /\ UNCHANGED <<rsvpVars, lastSend, services, notifications, settings,
                 deliveryLog, pipelines, requests, lastPut, nEvents, nPuts,
                 faults, lastCall, bus>>

\* WebSocketNotificationProvider.send of a notification of userId: failure
\* when no socket is mapped, failure and removal of the entry when the
\* mapped socket does not exist any more, else the notification is emitted
\* on the mapped socket.  live records the connected sockets whose userId
\* is the user's when send is called.
WsSend(userId) ==
  /\ LET live == {s \in DOMAIN sockets :
                    sockets[s].connected /\ sockets[s].userId = Some(userId)}
         socketId == connectedUsers[userId]
     IN IF socketId = None
        THEN /\ connectedUsers' = connectedUsers
             /\ lastSend' = Some([userId |-> userId, success |-> FALSE,
                                  error |-> "Usuario nao conectado via WebSocket",
                                  socket |-> None, live |-> live])
        ELSE IF ~sockets[socketId[1]].connected
        THEN /\ connectedUsers' = [connectedUsers EXCEPT ![userId] = None]
             /\ lastSend' = Some([userId |-> userId, success |-> FALSE,
                                  error |-> "Socket nao encontrado",
                                  socket |-> None, live |-> live])
        ELSE /\ connectedUsers' = connectedUsers
             /\ lastSend' = Some([userId |-> userId, success |-> TRUE,
                                  error |-> "", socket |-> socketId,
                                  live |-> live])
  /\ UNCHANGED <<rsvpVars, sockets, services, notifications, settings,
                 deliveryLog, pipelines, requests, lastPut, nEvents, nPuts,
                 faults, lastCall, bus>>

\* The request bodies of PUT /:id/rsvp: the two statuses rsvpSchema allows
\* and one it rejects; the ids name the two guests and a guest that does
\* not exist.
RsvpStatuses == {"confirmed", "declined", "maybe"}
GuestIds == {"g1", "g2", "g0"}

\* rsvpSchema.validate(req.body).error.
RsvpError(status) == status \notin {"confirmed", "declined"}

\* A route that emits for a confirmation only.
EmitOnConfirmOnly(existingGuest, status) ==
  /\ existingGuest.status # status
  /\ existingGuest.owner # None
  /\ status = "confirmed"
\* statusChanged && existingGuest.event && existingGuest.event.user: the
\* route emits guest.status.changed.
ShouldEmit(existingGuest, status) ==
  /\ existingGuest.status # status
  /\ existingGuest.owner # None

\* router.put('/:id/rsvp') up to the findUnique it awaits: 400 on a body
\* the schema rejects, 404 when the guest does not exist.
RsvpStart(id, status) ==
  /\ Len(rsvps) < MaxRsvps
  /\ rsvps' = Append(rsvps,
       [guest |-> id, status |-> status, ev |-> 0,
        found |-> IF id \in DOMAIN guests THEN Some(guests[id]) ELSE None,
        countBefore |-> IF id \in DOMAIN guests /\ guests[id].owner # None
                        THEN Count(notifications, guests[id].owner[1], FALSE, None)
                        ELSE 0,
        pc |-> IF RsvpError(status) \/ id \notin DOMAIN guests
               THEN "done" ELSE "update",
        code |-> IF RsvpError(status) THEN 400
                 ELSE IF id \notin DOMAIN guests THEN 404 ELSE 0])
  /\ UNCHANGED <<guests, wsVars, services, notifications, settings,
                 deliveryLog, pipelines, requests, lastPut, nEvents, nPuts,
                 faults, lastCall, bus>>

\* router.put('/:id/rsvp') from the guest update on: the update, the
\* status_change message, emitGuestStatusChanged when the status changed
\* and the event has a user, then 200; an exception that leaves the emit
\* reaches the route's catch, which answers 500.
RsvpFinish(k) ==
  /\ rsvps[k].pc = "update"
  /\ LET r == rsvps[k]
         emits == ShouldEmit(r.found[1], r.status)
     IN /\ guests' = [guests EXCEPT ![r.guest].status = r.status]
        /\ rsvps' = [rsvps EXCEPT
             ![k].pc = "done",
             ![k].ev = IF emits THEN nEvents + 1 ELSE 0,
             ![k].code =
               IF emits /\ Throws(ListenersOf(bus.listeners, "guest"))
               THEN 500 ELSE 200]
        /\ IF emits
           THEN Deliver("guest", [userId |-> r.found[1].owner[1],
                                  newStatus |-> r.status, timestamp |-> None])
           ELSE UNCHANGED <<wsVars, services, notifications, settings,
                            deliveryLog, pipelines, requests, lastPut,
                            nEvents, nPuts, faults, lastCall, bus>>

\* await this.createNotification(...) in a handler.
PersistNotification(i) ==
  /\ pipelines[i].pc = "persist"
  /\ notifications' =
       Append(notifications, NewNotification(pipelines[i], pipelines[i].type))
  /\ pipelines' = [pipelines EXCEPT ![i] =
       AfterPersist(@, Len(notifications) + 1, services[@.svc])]
  /\ UNCHANGED <<rsvpVars, wsVars, services, settings, deliveryLog, requests, lastPut, nEvents,
                 nPuts, faults, lastCall, bus>>

\* An insert that takes effect although its statement throws.
PersistFailsAfterInsert(i) ==
  /\ pipelines[i].pc = "persist"
  /\ faults < MaxFaults
  /\ faults' = faults + 1
  /\ notifications' =
       Append(notifications, NewNotification(pipelines[i], pipelines[i].type))
  /\ pipelines' = [pipelines EXCEPT ![i].pc = "caught"]
  /\ UNCHANGED <<rsvpVars, wsVars, services, settings, deliveryLog, requests, lastPut, nEvents,
                 nPuts, lastCall, bus>>

\* await this.createNotification(...) when the insert throws: the
\* handler's catch logs the error and the handler returns.
PersistNotificationFails(i) ==
  /\ pipelines[i].pc = "persist"
  /\ faults < MaxFaults
  /\ faults' = faults + 1
  /\ pipelines' = [pipelines EXCEPT ![i].pc = "caught"]
  /\ UNCHANGED <<rsvpVars, wsVars, services, notifications, settings, deliveryLog, requests,
                 lastPut, nEvents, nPuts, lastCall, bus>>

\* getUserNotificationSettings in a handler, the findUnique it awaits.
ResolveFind(i) ==
  /\ pipelines[i].pc = "find"
  /\ LET found == FindUnique(settings, pipelines[i].userId)
     IN pipelines' = [pipelines EXCEPT ![i] =
          IF found = None THEN [@ EXCEPT !.pc = "create"]
          ELSE AfterSettings(@, found[1], services[@.svc])]
  /\ UNCHANGED <<rsvpVars, wsVars, services, notifications, settings, deliveryLog, requests,
                 lastPut, nEvents, nPuts, faults, lastCall, bus>>

\* getUserNotificationSettings in a handler, the create it awaits; a
\* rejected insert reaches the handler's catch.
ResolveCreate(i) ==
  /\ pipelines[i].pc = "create"
  /\ LET u == pipelines[i].userId
         row == NewSettingsRow(u, ServiceDefaults)
     IN IF UniqueViolation(settings, u)
        THEN /\ settings' = settings
             /\ pipelines' = [pipelines EXCEPT ![i].pc = "caught"]
        ELSE /\ settings' = Append(settings, row)
             /\ pipelines' = [pipelines EXCEPT ![i] =
                  AfterSettings(@, row, services[@.svc])]
  /\ UNCHANGED <<rsvpVars, wsVars, services, notifications, deliveryLog, requests, lastPut,
                 nEvents, nPuts, faults, lastCall, bus>>

\* One channel: await prisma.notificationDeliveryLog.create (PENDING); a
\* channel outside the enum makes the statement throw into the catch branch.
LogCreate(i, c) ==
  /\ pipelines[i].pc = "dispatch"
  /\ pipelines[i].att[c].st = "create"
  /\ IF EnumViolation(c)
     THEN /\ deliveryLog' = deliveryLog
          /\ pipelines' = [pipelines EXCEPT ![i].att =
               CatchInAttempt(@, c, "valor invalido para DeliveryChannel", FALSE)]
     ELSE /\ deliveryLog' =
               deliveryLog @@ (<<i, c>> :> NewDeliveryLog(pipelines[i].nid, c))
          /\ pipelines' = [pipelines EXCEPT ![i].att[c].st = "send",
                                            ![i].att[c].log = Some(<<i, c>>)]
  /\ UNCHANGED <<rsvpVars, wsVars, services, notifications, settings, requests, lastPut,
                 nEvents, nPuts, faults, lastCall, bus>>

\* A closure that goes on to the provider although the insert threw.
LogCreateFailsThenSends(i, c) ==
  /\ pipelines[i].pc = "dispatch"
  /\ pipelines[i].att[c].st = "create"
  /\ faults < MaxFaults
  /\ faults' = faults + 1
  /\ pipelines' = [pipelines EXCEPT ![i].att[c].st = "send",
                                    ![i].att[c].fault = TRUE]
  /\ UNCHANGED <<rsvpVars, wsVars, services, notifications, settings, deliveryLog, requests,
                 lastPut, nEvents, nPuts, lastCall, bus>>

\* One channel: the insert of the PENDING row throws, and the closure's
\* catch branch runs without the provider having been called.
LogCreateFails(i, c) ==
  /\ pipelines[i].pc = "dispatch"
  /\ pipelines[i].att[c].st = "create"
  /\ faults < MaxFaults
  /\ faults' = faults + 1
  /\ pipelines' = [pipelines EXCEPT ![i].att =
       CatchInAttempt(@, c, "erro do banco", TRUE)]
  /\ UNCHANGED <<rsvpVars, wsVars, services, notifications, settings, deliveryLog, requests,
                 lastPut, nEvents, nPuts, lastCall, bus>>

\* A dispatch that calls the provider a second time after a first failure.
ProviderSendWithRetry(i, c, res) ==
  /\ pipelines[i].pc = "dispatch"
  /\ pipelines[i].att[c].st = "send"
  /\ pipelines' = [pipelines EXCEPT ![i].att =
       IF res = "fail" /\ @[c].sends = 0
       THEN [@ EXCEPT ![c].res = res, ![c].sends = @ + 1]
       ELSE [@ EXCEPT ![c].st = "update", ![c].res = res, ![c].sends = @ + 1]]
  /\ UNCHANGED <<rsvpVars, wsVars, services, notifications, settings, deliveryLog, requests,
                 lastPut, nEvents, nPuts, faults, lastCall, bus>>

\* One channel: await provider.send(notification, eventData).
ProviderSend(i, c, res) ==
  /\ pipelines[i].pc = "dispatch"
  /\ pipelines[i].att[c].st = "send"
  /\ pipelines' = [pipelines EXCEPT ![i].att =
       IF res = "throw"
       THEN [CatchInAttempt(@, c, "provider falhou", FALSE)
               EXCEPT ![c].res = res, ![c].sends = @ + 1]
       ELSE [@ EXCEPT ![c].st = "update", ![c].res = res, ![c].sends = @ + 1]]
  /\ UNCHANGED <<rsvpVars, wsVars, services, notifications, settings, deliveryLog, requests,
                 lastPut, nEvents, nPuts, faults, lastCall, bus>>

\* One channel: await prisma.notificationDeliveryLog.update (by id).
LogUpdate(i, c) ==
  /\ pipelines[i].pc = "dispatch"
  /\ pipelines[i].att[c].st = "update"
  /\ deliveryLog' =
       UpdateById(deliveryLog, pipelines[i].att[c].log[1], pipelines[i].att[c].res)
  /\ pipelines' = [pipelines EXCEPT ![i] =
       AwaitAll([@ EXCEPT !.att[c].st = "settled"])]
  /\ UNCHANGED <<rsvpVars, wsVars, services, notifications, settings, requests, lastPut,
                 nEvents, nPuts, faults, lastCall, bus>>

\* One channel: the update by id throws, and the catch branch runs.
LogUpdateFails(i, c) ==
  /\ pipelines[i].pc = "dispatch"
  /\ pipelines[i].att[c].st = "update"
  /\ faults < MaxFaults
  /\ faults' = faults + 1
  /\ pipelines' = [pipelines EXCEPT ![i].att =
       CatchInAttempt(@, c, "erro do banco", TRUE)]
  /\ UNCHANGED <<rsvpVars, wsVars, services, notifications, settings, deliveryLog, requests,
                 lastPut, nEvents, nPuts, lastCall, bus>>

\* One channel, the catch branch: await the updateMany; with a channel
\* outside the enum the updateMany throws too and the promise is rejected.
LogCatch(i, c) ==
  /\ pipelines[i].pc = "dispatch"
  /\ pipelines[i].att[c].st = "catch"
  /\ IF EnumViolation(c)
     THEN /\ deliveryLog' = deliveryLog
          /\ pipelines' = [pipelines EXCEPT ![i] =
               AwaitAll([@ EXCEPT !.att[c].st = "rejected"])]
     ELSE /\ deliveryLog' = UpdateManyFailed(deliveryLog, pipelines[i].nid, c,
                                             pipelines[i].att[c].err)
          /\ pipelines' = [pipelines EXCEPT ![i] =
               AwaitAll([@ EXCEPT !.att[c].st = "settled"])]
  /\ UNCHANGED <<rsvpVars, wsVars, services, notifications, settings, requests, lastPut,
                 nEvents, nPuts, faults, lastCall, bus>>

\* One channel, the catch branch when its updateMany throws too: the
\* channel's promise is rejected, which allSettled absorbs.
LogCatchFails(i, c) ==
  /\ pipelines[i].pc = "dispatch"
  /\ pipelines[i].att[c].st = "catch"
  /\ faults < MaxFaults
  /\ faults' = faults + 1
  /\ pipelines' = [pipelines EXCEPT ![i] =
       AwaitAll([@ EXCEPT !.att[c].st = "rejected", !.att[c].fault = TRUE])]
  /\ UNCHANGED <<rsvpVars, wsVars, services, notifications, settings, deliveryLog, requests,
                 lastPut, nEvents, nPuts, lastCall, bus>>

\* createNotification called by a caller of the service, as the tests and
\* POST /test call it: a row of the type for the user, of no bus event.
CreateNotification(u, type) ==
  /\ Len(notifications) < MaxNotifications
  /\ notifications' = Append(notifications,
       NewNotification([userId |-> u, ev |-> 0], type))
  /\ UNCHANGED <<rsvpVars, wsVars, services, settings, deliveryLog, pipelines, requests, lastPut,
                 nEvents, nPuts, faults, lastCall, bus>>

\* The channel lists a direct caller of sendNotificationThroughChannels
\* passes: the list of the delivery-log test, and lists of settings channels.
DirectChannelLists == {<<"test">>, <<"email", "test">>, <<"email", "websocket">>}

\* sendNotificationThroughChannels(notification, channels, eventData)
\* called directly on an existing notification, up to its first await.
SendNotificationThroughChannels(s, n, channels) ==
  /\ Len(pipelines) < MaxPipelines
  /\ pipelines' = Append(pipelines,
       AwaitAll([ev |-> 0, kind |-> "direct", userId |-> notifications[n].userId,
                 newStatus |-> "", svc |-> s, pc |-> "dispatch",
                 type |-> notifications[n].type, nid |-> n, seen |-> None,
                 channels |-> channels,
                 att |-> StartAttempts(services[s], channels)]))
  /\ UNCHANGED <<rsvpVars, wsVars, services, notifications, settings, deliveryLog, requests,
                 lastPut, nEvents, nPuts, faults, lastCall, bus>>

\* PATCH /:id/read: markAsRead(id, req.user.id), then 200.
MarkAsRead(id, u) ==
  /\ notifications' = MarkAsReadRows(notifications, id, u)
  /\ lastCall' = Some([op |-> "markAsRead", userId |-> u, id |-> id,
                        before |-> notifications,
                        after |-> MarkAsReadRows(notifications, id, u),
                        code |-> 200])
  /\ UNCHANGED <<rsvpVars, wsVars, services, settings, deliveryLog, pipelines, requests, lastPut,
                 nEvents, nPuts, faults, bus>>

\* PATCH /mark-all-read, then 200.
MarkAllRead(u) ==
  /\ notifications' = MarkAllReadRows(notifications, u)
  /\ lastCall' = Some([op |-> "markAllRead", userId |-> u,
                        before |-> notifications,
                        after |-> MarkAllReadRows(notifications, u),
                        code |-> 200])
  /\ UNCHANGED <<rsvpVars, wsVars, services, settings, deliveryLog, pipelines, requests, lastPut,
                 nEvents, nPuts, faults, bus>>

\* The options a caller passes: the four options router.get('/') always
\* builds, page and limit alone as the pagination test passes them, a page
\* alone, and none.
NotificationTypes == {"GUEST_CONFIRMED", "INVITE_SENT"}
QueryOptions ==
  [page : 1..MaxPage, limit : 1..MaxLimit, unreadOnly : BOOLEAN,
   type : {None} \cup {Some(t) : t \in NotificationTypes}]
  \cup [page : 1..MaxPage, limit : 1..MaxLimit]
  \cup [page : 1..MaxPage] \cup {<<>>}

\* GET /api/notifications: getUserNotifications(req.user.id, options).
ListNotifications(u, options) ==
  /\ lastCall' = Some([op |-> "list", userId |-> u, options |-> options,
                        before |-> notifications,
                        result |-> GetUserNotifications(notifications, u, options)])
  /\ UNCHANGED <<rsvpVars, wsVars, services, notifications, settings, deliveryLog, pipelines,
                 requests, lastPut, nEvents, nPuts, faults, bus>>

Next ==
  \/ NewNotificationService
  \/ \E s \in DOMAIN services, name \in {"email", "websocket"} :
       RegisterProvider(s, name)
  \/ \E u \in Users, st \in GuestStatuses : EmitGuestStatusChanged(u, st)
  \/ \E u \in Users : EmitInviteSent(u)
  \/ \E i \in DOMAIN pipelines : PersistNotification(i)
  \/ \E i \in DOMAIN pipelines : ResolveFind(i)
  \/ \E i \in DOMAIN pipelines : ResolveCreate(i)
  \/ \E i \in DOMAIN pipelines, c \in Channels : LogCreate(i, c)
  \/ \E i \in DOMAIN pipelines, c \in Channels :
       \E res \in OutcomesOf(pipelines[i].svc) : ProviderSend(i, c, res)
  \/ \E i \in DOMAIN pipelines, c \in Channels : LogUpdate(i, c)
  \/ \E i \in DOMAIN pipelines, c \in Channels : LogCatch(i, c)

\* The notification service: events, handlers and channel fan-out.
Spec == Init /\ [][Next]_vars

NextSettings ==
  \/ \E u \in Users, body \in PutBodies : PutSettings(u, body)
  \/ \E u \in Users : GetSettingsStart(u)
  \/ \E r \in DOMAIN requests : GetSettingsFind(r)
  \/ \E r \in DOMAIN requests : GetSettingsCreate(r)

\* Direct callers of the service: providers registered under any name and
\* sendNotificationThroughChannels called with a channel list of the caller.
NextDirect ==
  \/ NewNotificationService
  \/ \E s \in DOMAIN services, name \in {"email", "test"} :
       RegisterProvider(s, name)
  \/ \E u \in Users :
       Len(notifications) < MaxDirect /\ CreateNotification(u, "GUEST_CONFIRMED")
  \/ \E s \in DOMAIN services, n \in DOMAIN notifications :
       \E channels \in DirectChannelLists :
         SendNotificationThroughChannels(s, n, channels)
  \/ \E i \in DOMAIN pipelines, c \in ChannelNames : LogCreate(i, c)
  \/ \E i \in DOMAIN pipelines, c \in ChannelNames :
       \E res \in OutcomesOf(pipelines[i].svc) : ProviderSend(i, c, res)
  \/ \E i \in DOMAIN pipelines, c \in ChannelNames : LogUpdate(i, c)
  \/ \E i \in DOMAIN pipelines, c \in ChannelNames : LogCatch(i, c)

SpecDirect == Init /\ [][NextDirect]_vars

\* The bus seen by its publishers: subscribers of any kind, payloads with
\* and without a timestamp, every emit helper.  The handlers the listeners
\* of the services start are followed in Spec.
NextBus ==
  \/ NewNotificationService
  \/ \E e \in {"guest", "invite"}, h \in Handlers : Subscribe(e, h)
  \/ \E k \in EventKinds, u \in Users, st \in {"confirmed", ""} :
       \E ts \in {None, Some("do publicador")} :
         Publish(k, [userId |-> u, newStatus |-> st, timestamp |-> ts])

SpecBus == Init /\ [][NextBus]_vars

\* Callers that do not read the settings table start from the empty one.
InitQuery == Init /\ settings = <<>>

\* The RSVP route with the service of index.js listening; its providers
\* catch their own exceptions and the store is up, so no catch branch runs.
NextRsvp ==
  \/ \E id \in GuestIds, status \in RsvpStatuses : RsvpStart(id, status)
  \/ \E k \in DOMAIN rsvps : RsvpFinish(k)
  \/ \E i \in DOMAIN pipelines : PersistNotification(i)
  \/ \E i \in DOMAIN pipelines : ResolveFind(i)
  \/ \E i \in DOMAIN pipelines : ResolveCreate(i)
  \/ \E i \in DOMAIN pipelines, c \in Channels : LogCreate(i, c)
  \/ \E i \in DOMAIN pipelines, c \in Channels :
       \E res \in OutcomesOf(pipelines[i].svc) : ProviderSend(i, c, res)
  \/ \E i \in DOMAIN pipelines, c \in Channels : LogUpdate(i, c)

\* A database statement a handler awaits resolves, and the handler goes on:
\* the insert of the notification is not postponed forever.
SpecRsvp ==
  /\ Init /\ [][NextRsvp]_vars
  /\ WF_vars(\E i \in DOMAIN pipelines : PersistNotification(i))

\* The WebSocket provider: sockets connect, authenticate and disconnect,
\* and notifications are sent to users.
NextWs ==
  \/ SocketConnect
  \/ \E s \in DOMAIN sockets, data \in AuthMessages : Authenticate(s, data)
  \/ \E s \in DOMAIN sockets : SocketDisconnect(s)
  \/ \E u \in Users : DisconnectUser(u)
  \/ \E u \in Users : WsSend(u)

SpecWs == Init /\ [][NextWs]_vars

\* Notifications of one owner from their creation by a handler on: the
\* dispatch of each through the providers of index.js, which succeed or
\* report failure, and the mark-read routes called by the owner and by
\* another user on any id.
NextLifecycle ==
  \/ \E st \in {"confirmed", "declined"} : EmitGuestStatusChanged("u1", st)
  \/ \E i \in DOMAIN pipelines : PersistNotification(i)
  \/ \E i \in DOMAIN pipelines : ResolveFind(i)
  \/ \E i \in DOMAIN pipelines : ResolveCreate(i)
  \/ \E i \in DOMAIN pipelines, c \in Channels : LogCreate(i, c)
  \/ \E i \in DOMAIN pipelines, c \in Channels :
       \E res \in OutcomesOf(pipelines[i].svc) : ProviderSend(i, c, res)
  \/ \E i \in DOMAIN pipelines, c \in Channels : LogUpdate(i, c)
  \/ \E u \in Users, id \in 1..MaxPipelines : MarkAsRead(id, u)
  \/ \E u \in Users : MarkAllRead(u)

SpecLifecycle == InitQuery /\ [][NextLifecycle]_vars

\* The values of the enum NotificationType, and a string outside it.
TypeNames ==
  {"GUEST_CONFIRMED", "GUEST_DECLINED", "GUEST_PENDING", "INVITE_SENT",
   "EVENT_REMINDER", "EVENT_UPDATED", "SYSTEM_ALERT", "UNKNOWN"}

\* Settings rows a caller passes to getActiveChannels: the row with the
\* defaults, and every row that differs from it in the channel map of one
\* type.
SettingsRecords ==
  { NewSettingsRow("u1", (k :> m)) :
      k \in MapKeys, m \in [Channels -> BOOLEAN] }

\* getActiveChannels(settings, notificationType) called on a settings row.
GetActiveChannelsCall(row, type) ==
  /\ lastCall' = Some([op |-> "getActiveChannels", row |-> row, type |-> type,
                        result |-> GetActiveChannels(row, type)])
  /\ UNCHANGED <<rsvpVars, wsVars, services, notifications, settings,
                 deliveryLog, pipelines, requests, lastPut, nEvents, nPuts,
                 faults, bus>>

NextChannels ==
  \E row \in SettingsRecords, type \in TypeNames :
    GetActiveChannelsCall(row, type)

\* getActiveChannels, a pure function of the row and the type it is passed.
SpecChannels == InitQuery /\ [][NextChannels]_vars

\* The query API on a table that createNotification fills.
NextQuery ==
  \/ \E u \in Users, type \in NotificationTypes : CreateNotification(u, type)
  \/ \E u \in Users, id \in 1..(MaxNotifications + 1) : MarkAsRead(id, u)
  \/ \E u \in Users : MarkAllRead(u)
  \/ \E u \in Users, options \in QueryOptions : ListNotifications(u, options)

SpecQuery == InitQuery /\ [][NextQuery]_vars

\* The service index.js constructs, with store statements that can throw.
NextFaults ==
  \/ \E u \in Users, st \in GuestStatuses : EmitGuestStatusChanged(u, st)
  \/ \E u \in Users : EmitInviteSent(u)
  \/ \E i \in DOMAIN pipelines : PersistNotification(i)
  \/ \E i \in DOMAIN pipelines : PersistNotificationFails(i)
  \/ \E i \in DOMAIN pipelines : ResolveFind(i)
  \/ \E i \in DOMAIN pipelines : ResolveCreate(i)
  \/ \E i \in DOMAIN pipelines, c \in Channels : LogCreate(i, c)
  \/ \E i \in DOMAIN pipelines, c \in Channels : LogCreateFails(i, c)
  \/ \E i \in DOMAIN pipelines, c \in Channels :
       \E res \in OutcomesOf(pipelines[i].svc) : ProviderSend(i, c, res)
  \/ \E i \in DOMAIN pipelines, c \in Channels : LogUpdate(i, c)
  \/ \E i \in DOMAIN pipelines, c \in Channels : LogUpdateFails(i, c)
  \/ \E i \in DOMAIN pipelines, c \in Channels : LogCatch(i, c)
  \/ \E i \in DOMAIN pipelines, c \in Channels : LogCatchFails(i, c)

SpecFaults == Init /\ [][NextFaults]_vars

\* The settings routes: concurrent reads-or-creates and upserts.
SpecSettings == Init /\ [][NextSettings]_vars

----------------------------------------------------------------------------
(* State functions the properties are written with. *)

Finished(p) == p.pc \in {"done", "caught"}

\* The delivery log rows that reference notification nid.
LogsOf(nid) == {id \in DOMAIN deliveryLog : deliveryLog[id].notificationId = nid}

\* The channels of a settings row that are enabled for a type.
Enabled(row, type) == {c \in Channels : row[
  CASE type = "GUEST_CONFIRMED" -> "guestConfirmed"
    [] type = "GUEST_DECLINED" -> "guestDeclined"
    [] type = "INVITE_SENT" -> "inviteSent"][c]}

----------------------------------------------------------------------------
(* C1 - channel isolation in the fan-out. *)

\* C1: once a dispatch has returned, every channel it had a provider for
\* has reached its own outcome, whatever the other channels did: its row is
\* SENT when its provider succeeded and FAILED when its provider reported
\* failure or threw; no attempt is left unfinished or cut short, and the
\* notification persisted before the dispatch is as it was inserted.
C1_ChannelIsolation ==
  \A i \in DOMAIN pipelines :
    LET p == pipelines[i] IN
    (p.pc = "done" /\ p.nid # 0) =>
      /\ notifications[p.nid] = NewNotification(p, p.type)
      /\ \A c \in Channels :
           (p.att[c].st \notin {"none", "skip"} /\ ~p.att[c].fault) =>
             /\ p.att[c].st = "settled"
             /\ p.att[c].log # None
             /\ p.att[c].res # "none"
             /\ deliveryLog[p.att[c].log[1]].status =
                  IF p.att[c].res = "ok" THEN "SENT" ELSE "FAILED"

\* The email provider threw, the websocket provider succeeded, and the
\* dispatch has returned with email FAILED and websocket SENT.
C1_Witness ==
  \E i \in DOMAIN pipelines :
    /\ pipelines[i].pc = "done"
    /\ pipelines[i].att["email"].res = "throw"
    /\ pipelines[i].att["websocket"].res = "ok"
    /\ pipelines[i].att["email"].st = "settled"
    /\ deliveryLog[<<i, "email">>].status = "FAILED"
    /\ deliveryLog[<<i, "websocket">>].status = "SENT"

----------------------------------------------------------------------------
(* C2 - fan-out completeness. *)

\* C2: for every notification a guest.status.changed handler has produced,
\* once the handler has returned (and no store statement of it has thrown)
\* the delivery log holds exactly one row per channel that the owner's
\* settings enable for the type and the handling service has a provider
\* for, and no other row.
C2_FanOutCompleteness ==
  \A i \in DOMAIN pipelines :
    LET p == pipelines[i] IN
    (p.kind = "guest" /\ p.nid # 0 /\ Finished(p) /\ RowsOf(settings, p.userId) # {}
       /\ \A c \in Channels : ~p.att[c].fault) =>
      LET row == FindUnique(settings, p.userId)[1]
          expected == Enabled(row, p.type) \cap services[p.svc]
      IN /\ \A c \in expected :
              Cardinality({id \in LogsOf(p.nid) :
                             deliveryLog[id].channel = ToUpperCase(c)}) = 1
         /\ \A id \in LogsOf(p.nid) :
              \E c \in expected : deliveryLog[id].channel = ToUpperCase(c)

----------------------------------------------------------------------------
(* C3 - delivery status is monotone and terminal. *)

\* C3: every step leaves the rows of the delivery log in place, inserts new
\* rows as PENDING only, changes the status of a PENDING row to SENT or
\* FAILED only, and never changes the status of a SENT or FAILED row.
C3_StatusMonotone ==
  [][ /\ \A id \in DOMAIN deliveryLog :
           /\ id \in DOMAIN deliveryLog'
           /\ deliveryLog[id].status # "PENDING" =>
                deliveryLog'[id].status = deliveryLog[id].status
           /\ deliveryLog'[id].status \in {deliveryLog[id].status, "SENT", "FAILED"}
      /\ \A id \in DOMAIN deliveryLog' \ DOMAIN deliveryLog :
           deliveryLog'[id].status = "PENDING" ]_vars

----------------------------------------------------------------------------
(* C4 - classification filter. *)

\* C4: a guest.status.changed event whose newStatus is neither confirmed
\* nor declined leaves no notification, no delivery log row and no provider
\* call behind, in any service; the notification of a confirmed event is
\* GUEST_CONFIRMED and that of a declined event GUEST_DECLINED.
C4_ClassificationFilter ==
  \A i \in DOMAIN pipelines :
    LET p == pipelines[i] IN
    p.kind = "guest" =>
      IF p.newStatus \in {"confirmed", "declined"}
      THEN p.nid # 0 =>
             notifications[p.nid].type =
               IF p.newStatus = "confirmed" THEN "GUEST_CONFIRMED"
               ELSE "GUEST_DECLINED"
      ELSE /\ p.pc = "done" /\ p.nid = 0
           /\ \A n \in DOMAIN notifications : notifications[n].data # p.ev
           /\ \A c \in Channels :
                /\ p.att[c].st = "none" /\ p.att[c].res = "none"
                /\ <<i, c>> \notin DOMAIN deliveryLog

\* A pending event has been handled, and so have a confirmed and a
\* declined one that produced their notifications.
C4_Witness ==
  /\ \E i \in DOMAIN pipelines :
       pipelines[i].kind = "guest" /\ pipelines[i].newStatus = "pending"
  /\ \E i \in DOMAIN pipelines :
       /\ pipelines[i].newStatus = "declined" /\ pipelines[i].nid # 0
       /\ notifications[pipelines[i].nid].type = "GUEST_DECLINED"

----------------------------------------------------------------------------
(* C5 - settings uniqueness. *)

\* C5: no user ever has two settings rows, and a user for whom a
\* getUserNotificationSettings call has returned or thrown, or a PUT has
\* been answered 200, has exactly one.
C5_SettingsUnique ==
  \A u \in Users :
    /\ Cardinality(RowsOf(settings, u)) <= 1
    /\ (\/ \E r \in DOMAIN requests :
              requests[r].userId = u /\ requests[r].pc = "done"
        \/ lastPut # None /\ lastPut[1].userId = u /\ lastPut[1].code = 200)
         => Cardinality(RowsOf(settings, u)) = 1

\* Two first resolutions of one user raced: both found no row, both have
\* finished, and the user has a row.
C5_Witness ==
  \E r1, r2 \in DOMAIN requests :
    /\ r1 # r2 /\ requests[r1].userId = requests[r2].userId
    /\ requests[r1].pc = "done" /\ requests[r2].pc = "done"
    /\ requests[r1].code = 200 /\ requests[r2].code = 500
    /\ RowsOf(settings, requests[r1].userId) # {}

----------------------------------------------------------------------------
(* C6 - a settings-creation race is never surfaced. *)

\* C6: when only getUserNotificationSettings calls have touched the
\* settings (no PUT has run), every call that has finished returned the
\* user's settings row: GET /settings answered 200 with the row.
C6_RaceNeverSurfaces ==
  \A r \in DOMAIN requests :
    (requests[r].pc = "done" /\ nPuts = 0) =>
      /\ requests[r].code = 200
      /\ requests[r].row # None
      /\ requests[r].row[1].userId = requests[r].userId

----------------------------------------------------------------------------
(* C7 - invite.sent. *)

----------------------------------------------------------------------------
(* C8 - exactly-once creation. *)

\* C8: no event has two notifications, however many NotificationService
\* objects listen on the event bus.
C8_ExactlyOnce ==
  \A ev \in 1..nEvents :
    Cardinality({n \in DOMAIN notifications : notifications[n].data = ev}) <= 1

----------------------------------------------------------------------------
(* C9 - partial-merge round trip of PUT /settings. *)

\* C9: after a PUT answered 200 on an existing row, the row getSettings
\* reads holds the supplied value in every supplied field and flag, and the
\* value from before the PUT in every other field and flag.
C9_PartialMerge ==
  (lastPut # None /\ lastPut[1].code = 200 /\ lastPut[1].before # None) =>
    LET body == lastPut[1].body
        before == lastPut[1].before[1]
        row == FindUnique(settings, lastPut[1].userId)[1]
    IN \A k \in SettingsKeys :
         IF k \in MapKeys
         THEN \A c \in Channels :
                row[k][c] = IF k \in DOMAIN body /\ c \in DOMAIN body[k]
                            THEN body[k][c] ELSE before[k][c]
         ELSE row[k] = IF k \in DOMAIN body THEN body[k] ELSE before[k]

----------------------------------------------------------------------------
(* C10 - failure recording. *)

\* C10: the row of an attempt whose provider reported failure, with or
\* without an error in its result, or threw, ends FAILED with an error
\* message and without deliveredAt.
C10_FailureRecorded ==
  \A i \in DOMAIN pipelines, c \in Channels :
    LET a == pipelines[i].att[c] IN
    (a.st = "settled" /\ ~a.fault /\ a.res \in {"fail", "failNoError", "throw"}) =>
      /\ deliveryLog[a.log[1]].status = "FAILED"
      /\ deliveryLog[a.log[1]].errorMessage # None
      /\ deliveryLog[a.log[1]].deliveredAt = FALSE

----------------------------------------------------------------------------
(* C11 - success recording. *)

\* C11: once a dispatch has returned, every channel name of its list that
\* has a registered provider, and whose provider has not reported failure
\* or thrown, has a delivery log row of the notification whose channel is
\* the upper-cased name, whose status is SENT and whose deliveredAt is set;
\* and the channel of every row lies in the enum DeliveryChannel.
C11_SuccessRecorded ==
  /\ \A id \in DOMAIN deliveryLog : deliveryLog[id].channel \in DeliveryChannel
  /\ \A i \in DOMAIN pipelines :
       LET p == pipelines[i] IN
       p.pc = "done" =>
         \A k \in DOMAIN p.channels :
           LET c == p.channels[k] IN
           (c \in services[p.svc] /\ p.att[c].res \in {"ok", "none"}) =>
             \E id \in LogsOf(p.nid) :
               /\ deliveryLog[id].channel = ToUpperCase(c)
               /\ deliveryLog[id].status = "SENT"
               /\ deliveryLog[id].deliveredAt

----------------------------------------------------------------------------
(* C12 - wait for all. *)

\* C12: a handler that has returned from its dispatch has no channel attempt
\* still running or cut short: every attempt it started has settled, every
\* provider call it made has resolved or thrown, and the row of every
\* attempt whose store statements all succeeded has left PENDING.
C12_WaitForAll ==
  \A i \in DOMAIN pipelines :
    LET p == pipelines[i] IN
    (p.pc = "done" /\ p.nid # 0) =>
      \A k \in DOMAIN p.channels :
        LET a == p.att[p.channels[k]] IN
        /\ a.st \in {"skip", "settled", "rejected"}
        /\ p.channels[k] \in services[p.svc] => a.st \in {"settled", "rejected"}
        /\ (a.log # None /\ ~a.fault) =>
             deliveryLog[a.log[1]].status \in {"SENT", "FAILED"}

\* A handler has returned after one channel's attempt ended in a rejected
\* promise (its store statements threw) and the other channel's row is SENT.
C12_Witness ==
  \E i \in DOMAIN pipelines :
    /\ pipelines[i].pc = "done"
    /\ pipelines[i].att["email"].st = "rejected"
    /\ pipelines[i].att["websocket"].st = "settled"
    /\ deliveryLog[<<i, "websocket">>].status = "SENT"

----------------------------------------------------------------------------
(* C13 - missing provider. *)

\* C13: in a dispatch, an active channel the handling service has no
\* provider for is skipped: no provider call, no delivery log row of the
\* notification for that channel; the handler has not ended in its catch
\* for it, and once the dispatch has returned every other active channel
\* has been attempted to its end.
C13_MissingProvider ==
  \A i \in DOMAIN pipelines :
    LET p == pipelines[i] IN
    (p.nid # 0 /\ p.seen # None) =>
      /\ p.pc \in {"dispatch", "done"}
      /\ \A k \in DOMAIN p.channels :
           LET c == p.channels[k] IN
           IF c \notin services[p.svc]
           THEN /\ p.att[c].st = "skip" /\ p.att[c].res = "none"
                /\ p.att[c].log = None
                /\ \A id \in LogsOf(p.nid) : deliveryLog[id].channel # ToUpperCase(c)
           ELSE /\ p.att[c].st # "skip"
                /\ p.pc = "done" =>
                     /\ p.att[c].st = "settled"
                     /\ \E id \in LogsOf(p.nid) :
                          deliveryLog[id].channel = ToUpperCase(c)

\* The service of index.js has handled an event of a user whose settings
\* enable push: push was skipped, email and websocket have their rows.
C13_Witness ==
  \E i \in DOMAIN pipelines :
    /\ pipelines[i].svc = ProductionService
    /\ pipelines[i].pc = "done"
    /\ pipelines[i].att["push"].st = "skip"
    /\ pipelines[i].att["email"].st = "settled"
    /\ pipelines[i].att["websocket"].st = "settled"

----------------------------------------------------------------------------
(* C14 - markAsRead. *)

----------------------------------------------------------------------------
(* C15 - mark-all-read. *)

\* C15: after PATCH /mark-all-read of user X every notification of X is
\* read, with nothing else of it changed, and every notification of any
\* other user is as before; no row appears or disappears.
C15_MarkAllRead ==
  (lastCall # None /\ lastCall[1].op = "markAllRead") =>
    LET call == lastCall[1] IN
    /\ DOMAIN call.after = DOMAIN call.before
    /\ \A n \in DOMAIN call.before :
         IF call.before[n].userId = call.userId
         THEN call.after[n] = [call.before[n] EXCEPT !.read = TRUE]
         ELSE call.after[n] = call.before[n]

\* mark-all-read ran for a user with two unread notifications while another
\* user had an unread one.
C15_Witness ==
  /\ lastCall # None /\ lastCall[1].op = "markAllRead"
  /\ Cardinality({n \in DOMAIN lastCall[1].before :
                    /\ lastCall[1].before[n].userId = lastCall[1].userId
                    /\ ~lastCall[1].before[n].read}) = 2
  /\ \E n \in DOMAIN lastCall[1].before :
       lastCall[1].before[n].userId # lastCall[1].userId /\ ~lastCall[1].before[n].read

----------------------------------------------------------------------------
(* C16 - the counts of getUserNotifications. *)

\* C16: getUserNotifications returns as unreadCount the number of the
\* user's unread notifications, whatever the options, and as
\* pagination.total the number of the user's notifications that match the
\* unreadOnly and type options; no row of another user is counted.
C16_Counts ==
  (lastCall # None /\ lastCall[1].op = "list") =>
    LET call == lastCall[1]
        rows == call.before
        mine == {n \in DOMAIN rows : rows[n].userId = call.userId}
        unreadOnly == "unreadOnly" \in DOMAIN call.options /\ call.options.unreadOnly
        typed == "type" \in DOMAIN call.options /\ call.options.type # None
    IN /\ call.result.unreadCount = Cardinality({n \in mine : ~rows[n].read})
       /\ call.result.pagination.total =
            Cardinality({n \in mine :
                           /\ unreadOnly => ~rows[n].read
                           /\ typed => rows[n].type = call.options.type[1]})

\* A list call with unreadOnly and a type, of a user who has a read and an
\* unread notification, while another user has an unread one: total and
\* unreadCount differ from each other and from the table's size.
C16_Witness ==
  /\ lastCall # None /\ lastCall[1].op = "list"
  /\ "type" \in DOMAIN lastCall[1].options /\ lastCall[1].options.type # None
  /\ lastCall[1].options.unreadOnly
  /\ lastCall[1].result.unreadCount = 1
  /\ lastCall[1].result.pagination.total = 0
  /\ Len(lastCall[1].before) = 3
  /\ \E n \in DOMAIN lastCall[1].before :
       lastCall[1].before[n].userId # lastCall[1].userId /\ ~lastCall[1].before[n].read

----------------------------------------------------------------------------
(* C17 - the page of getUserNotifications. *)

\* C17: for page >= 1 and limit >= 1 (limit 20 and page 1 when left out),
\* getUserNotifications returns the notifications of the user that match
\* the filters and stand at positions (page-1)*limit .. page*limit-1 of the
\* newest-first order, in that order, so min(limit, remaining) of them, and
\* pagination.pages is the least number of pages of limit items that hold
\* total items.
C17_Page ==
  (lastCall # None /\ lastCall[1].op = "list") =>
    LET call == lastCall[1]
        rows == call.before
        page == IF "page" \in DOMAIN call.options THEN call.options.page ELSE 1
        limit == IF "limit" \in DOMAIN call.options THEN call.options.limit ELSE 20
        unreadOnly == "unreadOnly" \in DOMAIN call.options /\ call.options.unreadOnly
        typed == "type" \in DOMAIN call.options /\ call.options.type # None
        matching == {n \in DOMAIN rows :
                       /\ rows[n].userId = call.userId
                       /\ unreadOnly => ~rows[n].read
                       /\ typed => rows[n].type = call.options.type[1]}
        total == Cardinality(matching)
        remaining == IF total > (page - 1) * limit
                     THEN total - (page - 1) * limit ELSE 0
        items == call.result.notifications
        pages == call.result.pagination.pages
    IN /\ Len(items) = IF limit < remaining THEN limit ELSE remaining
       /\ \A k \in DOMAIN items :
            /\ items[k] \in matching
            /\ Cardinality({n \in matching : n > items[k]}) =
                 (page - 1) * limit + k - 1
       /\ pages * limit >= total
       /\ (pages - 1) * limit < total \/ (pages = 0 /\ total = 0)
       /\ call.result.pagination.page = page
       /\ call.result.pagination.limit = limit

\* The second page of two of a user with three notifications holds the
\* oldest one alone.
C17_Witness ==
  /\ lastCall # None /\ lastCall[1].op = "list"
  /\ "limit" \in DOMAIN lastCall[1].options
  /\ lastCall[1].options.page = 2 /\ lastCall[1].options.limit = 2
  /\ lastCall[1].result.pagination.total = 3
  /\ lastCall[1].result.pagination.pages = 2
  /\ lastCall[1].result.notifications = <<1>>

----------------------------------------------------------------------------
(* C18 - timestamp stamping. *)

\* C18: the payload an emit helper delivers carries the publisher's
\* timestamp when the publisher supplied one and a new timestamp when it
\* supplied none, and every other field as the publisher supplied it.
C18_TimestampStamping ==
  bus.last # None =>
    LET e == bus.last[1] IN
    /\ e.delivered.userId = e.payload.userId
    /\ e.delivered.newStatus = e.payload.newStatus
    /\ e.delivered.timestamp =
         IF e.payload.timestamp # None THEN e.payload.timestamp
         ELSE Some("new Date()")

----------------------------------------------------------------------------
(* C19 - subscriber failures and the publisher. *)

\* C19: whatever the listeners of an event are, an emit helper returns to
\* its caller without an exception and has called every listener
\* registered for the event.
C19_SubscriberFailuresContained ==
  bus.last # None =>
    /\ ~bus.last[1].threw
    /\ bus.last[1].called = bus.last[1].listeners

----------------------------------------------------------------------------
(* C20 - store unavailability. *)

\* C20: a handler whose createNotification threw has ended in its own
\* catch, and its event has left no notification, no delivery log row and
\* no provider call behind.
C20_StoreUnavailable ==
  \A i \in DOMAIN pipelines :
    LET p == pipelines[i] IN
    (p.pc = "caught" /\ p.nid = 0 /\ (p.kind = "invite" => p.seen # None)) =>
      /\ \A n \in DOMAIN notifications : notifications[n].data # p.ev
      /\ \A c \in DOMAIN p.att :
           /\ p.att[c] = IdleAttempt
           /\ <<i, c>> \notin DOMAIN deliveryLog

\* The insert of a guest.status.changed handler threw, and so did the
\* insert of an invite.sent handler that had resolved the settings.
C20_Witness ==
  /\ \E i \in DOMAIN pipelines :
       /\ pipelines[i].kind = "guest"
       /\ pipelines[i].pc = "caught" /\ pipelines[i].nid = 0
  /\ \E i \in DOMAIN pipelines :
       /\ pipelines[i].kind = "invite" /\ pipelines[i].seen # None
       /\ pipelines[i].pc = "caught" /\ pipelines[i].nid = 0

----------------------------------------------------------------------------
(* C21 - per-event containment. *)

\* C21: a failure inside a handler stays inside it.  A step in which a
\* channel attempt of handler i enters or leaves its catch branch, or in
\* which handler i ends in its own catch, leaves the handler at a point of
\* its own body, leaves every notification as it is, and leaves every other
\* handler and every delivery log row of another handler as they are; and
\* a handler whose own statements all succeeded has, once it has returned,
\* its notification as inserted and every row decided by its own provider,
\* whatever happened to the other handlers.
C21_EventContained ==
  /\ [](\A j \in DOMAIN pipelines :
          LET p == pipelines[j] IN
          (p.pc = "done" /\ p.nid # 0 /\ \A c \in Channels : ~p.att[c].fault) =>
            /\ notifications[p.nid] = NewNotification(p, p.type)
            /\ \A k \in DOMAIN p.channels :
                 p.channels[k] \in services[p.svc] =>
                   /\ <<j, p.channels[k]>> \in DOMAIN deliveryLog
                   /\ deliveryLog[<<j, p.channels[k]>>].status =
                        IF p.att[p.channels[k]].res = "ok" THEN "SENT" ELSE "FAILED")
  /\ [][\A i \in DOMAIN pipelines :
          (\/ pipelines'[i].pc = "caught" /\ pipelines[i].pc # "caught"
           \/ \E c \in Channels :
                /\ pipelines'[i].att[c] # pipelines[i].att[c]
                /\ \/ pipelines'[i].att[c].st \in {"catch", "rejected"}
                   \/ pipelines[i].att[c].st = "catch") =>
            /\ pipelines'[i].pc \in {"caught", "dispatch", "done"}
            /\ notifications' = notifications
            /\ \A j \in DOMAIN pipelines \ {i} :
                 /\ pipelines'[j] = pipelines[j]
                 /\ \A c \in Channels :
                      <<j, c>> \in DOMAIN deliveryLog =>
                        /\ <<j, c>> \in DOMAIN deliveryLog'
                        /\ deliveryLog'[<<j, c>>] = deliveryLog[<<j, c>>]]_vars

\* Two events of one user were handled: the email attempt of one failed in
\* the store after its row was inserted and its catch branch set the row
\* FAILED, the other handler has returned with its email row SENT.
C21_Witness ==
  \E i, j \in DOMAIN pipelines :
    /\ i # j /\ pipelines[i].userId = pipelines[j].userId
    /\ pipelines[i].att["email"].fault
    /\ pipelines[i].att["email"].st = "settled"
    /\ <<i, "email">> \in DOMAIN deliveryLog
    /\ deliveryLog[<<i, "email">>].status = "FAILED"
    /\ pipelines[j].pc = "done" /\ pipelines[j].nid # 0
    /\ <<j, "email">> \in DOMAIN deliveryLog
    /\ deliveryLog[<<j, "email">>].status = "SENT"

----------------------------------------------------------------------------
(* C24 - no automatic retry. *)

\* C24: no channel attempt calls its provider more than once and every
\* row keeps retryCount 0; a step that calls a provider is the first call
\* of an attempt that has no result yet and whose row is still PENDING, so
\* an attempt that has failed is never called again.
C24_NoRetry ==
  /\ [](/\ \A i \in DOMAIN pipelines, c \in Channels :
             pipelines[i].att[c].sends <= 1
        /\ \A id \in DOMAIN deliveryLog : deliveryLog[id].retryCount = 0)
  /\ [][\A i \in DOMAIN pipelines, c \in Channels :
          pipelines'[i].att[c].sends # pipelines[i].att[c].sends =>
            /\ pipelines[i].att[c].sends = 0
            /\ pipelines[i].att[c].res = "none"
            /\ pipelines[i].att[c].log # None
            /\ deliveryLog[pipelines[i].att[c].log[1]].status = "PENDING"
            /\ deliveryLog' = deliveryLog]_vars

\* A handler has returned after its email provider reported failure and
\* its websocket provider threw: both rows are FAILED, and each provider
\* was called once.
C24_Witness ==
  \E i \in DOMAIN pipelines :
    /\ pipelines[i].pc = "done"
    /\ pipelines[i].att["email"].res = "fail"
    /\ pipelines[i].att["websocket"].res = "throw"
    /\ pipelines[i].att["email"].sends = 1
    /\ pipelines[i].att["websocket"].sends = 1
    /\ deliveryLog[<<i, "email">>].status = "FAILED"
    /\ deliveryLog[<<i, "websocket">>].status = "FAILED"
    /\ deliveryLog[<<i, "email">>].retryCount = 0

----------------------------------------------------------------------------
(* C28 - the delivery log row is written before the provider is called. *)

\* C28: a channel attempt that has called its provider had inserted its
\* row before, and the row is of the attempt's notification and channel; a
\* step that calls a provider finds that row in the table, and every row
\* enters the table PENDING; an attempt whose insert threw has not called
\* its provider.
C28_LedgerBeforeDelivery ==
  /\ [](\A i \in DOMAIN pipelines, c \in Channels :
          LET a == pipelines[i].att[c] IN
          /\ a.sends > 0 =>
               /\ a.log # None
               /\ a.log[1] \in DOMAIN deliveryLog
               /\ deliveryLog[a.log[1]].notificationId = pipelines[i].nid
               /\ deliveryLog[a.log[1]].channel = ToUpperCase(c)
          /\ a.log = None => (a.sends = 0 /\ a.res = "none"))
  /\ [][/\ \A i \in DOMAIN pipelines, c \in Channels :
            pipelines'[i].att[c].sends > pipelines[i].att[c].sends =>
              /\ pipelines[i].att[c].log # None
              /\ pipelines[i].att[c].log[1] \in DOMAIN deliveryLog
        /\ \A id \in DOMAIN deliveryLog' \ DOMAIN deliveryLog :
              deliveryLog'[id].status = "PENDING"]_vars

\* In one dispatch the insert of the email row threw, so the email
\* provider was not called and no email row exists, while the websocket
\* provider was called after its row was inserted.
C28_Witness ==
  \E i \in DOMAIN pipelines :
    /\ pipelines[i].pc = "done"
    /\ pipelines[i].att["email"].fault
    /\ pipelines[i].att["email"].log = None
    /\ pipelines[i].att["email"].st = "settled"
    /\ pipelines[i].att["email"].sends = 0
    /\ <<i, "email">> \notin DOMAIN deliveryLog
    /\ pipelines[i].att["websocket"].sends = 1
    /\ deliveryLog[<<i, "websocket">>].status = "SENT"

----------------------------------------------------------------------------
(* C22 - default settings. *)

\* C22: a getUserNotificationSettings call that finds no row of the user
\* and whose insert succeeds adds exactly one row, of that user, with
\* guestConfirmed and guestDeclined email and websocket on and push off,
\* inviteSent websocket on only, eventReminder email and push on, and
\* returns it; a call that finds the row returns it and leaves the table as
\* it is; and as long as no PUT has run, all calls of one user that have
\* returned hold the same row, which is the row of the table.
C22_DefaultSettings ==
  /\ [](nPuts = 0 =>
          \A r \in DOMAIN requests :
            (requests[r].pc = "done" /\ requests[r].code = 200) =>
              /\ requests[r].row = FindUnique(settings, requests[r].userId)
              /\ Cardinality(RowsOf(settings, requests[r].userId)) = 1)
  /\ [][\A r \in DOMAIN requests :
          LET u == requests[r].userId IN
          /\ (requests[r].pc = "create" /\ requests'[r].code = 200) =>
               /\ RowsOf(settings, u) = {}
               /\ requests'[r].pc = "done"
               /\ requests'[r].row # None
               /\ settings' = Append(settings, requests'[r].row[1])
               /\ requests'[r].row[1].userId = u
               /\ requests'[r].row[1].guestConfirmed =
                    [email |-> TRUE, websocket |-> TRUE, push |-> FALSE]
               /\ requests'[r].row[1].guestDeclined =
                    [email |-> TRUE, websocket |-> TRUE, push |-> FALSE]
               /\ requests'[r].row[1].inviteSent =
                    [email |-> FALSE, websocket |-> TRUE, push |-> FALSE]
               /\ requests'[r].row[1].eventReminder =
                    [email |-> TRUE, websocket |-> FALSE, push |-> TRUE]
          /\ (requests[r].pc = "find" /\ requests'[r].pc = "done") =>
               /\ settings' = settings
               /\ requests'[r].code = 200
               /\ requests'[r].row = FindUnique(settings, u)
               /\ requests'[r].row # None]_vars

\* Two calls for a user who had no row have returned one after the other,
\* with no PUT in between: the first created the row, the second returned
\* the same row, and the user has one row.
C22_Witness ==
  \E r1, r2 \in DOMAIN requests :
    /\ r1 # r2 /\ nPuts = 0
    /\ requests[r1].userId = "u2" /\ requests[r2].userId = "u2"
    /\ requests[r1].pc = "done" /\ requests[r2].pc = "done"
    /\ requests[r1].code = 200 /\ requests[r2].code = 200
    /\ requests[r1].row = requests[r2].row
    /\ requests[r1].row # None
    /\ Cardinality(RowsOf(settings, "u2")) = 1

----------------------------------------------------------------------------
(* C23 - active-channel selection. *)

\* C23: for a type that has a channel map in the settings
\* (GUEST_CONFIRMED, GUEST_DECLINED, INVITE_SENT, EVENT_REMINDER),
\* getActiveChannels returns the channels whose flag is true in the map of
\* that type, each once, email before websocket before push; for every
\* other type it returns the empty list.
C23_ActiveChannels ==
  (lastCall # None /\ lastCall[1].op = "getActiveChannels") =>
    LET call == lastCall[1]
        r == call.result
        pos == [c \in {"email", "websocket", "push"} |->
                  IF c = "email" THEN 1 ELSE IF c = "websocket" THEN 2 ELSE 3]
        wired == {"GUEST_CONFIRMED", "GUEST_DECLINED", "INVITE_SENT",
                  "EVENT_REMINDER"}
        map == IF call.type = "GUEST_CONFIRMED" THEN call.row.guestConfirmed
               ELSE IF call.type = "GUEST_DECLINED" THEN call.row.guestDeclined
               ELSE IF call.type = "INVITE_SENT" THEN call.row.inviteSent
               ELSE call.row.eventReminder
    IN IF call.type \in wired
       THEN /\ {r[k] : k \in DOMAIN r} =
                 {c \in {"email", "websocket", "push"} : map[c]}
            /\ \A j, k \in DOMAIN r : j < k => pos[r[j]] < pos[r[k]]
       ELSE r = <<>>

\* getActiveChannels was called for INVITE_SENT on a row whose inviteSent
\* map has email and push on and websocket off, unlike its other maps.
C23_Witness ==
  /\ lastCall # None /\ lastCall[1].op = "getActiveChannels"
  /\ lastCall[1].type = "INVITE_SENT"
  /\ lastCall[1].row.inviteSent =
       [email |-> TRUE, websocket |-> FALSE, push |-> TRUE]
  /\ lastCall[1].row.guestConfirmed =
       [email |-> TRUE, websocket |-> TRUE, push |-> FALSE]
  /\ lastCall[1].result = <<"email", "push">>

----------------------------------------------------------------------------
(* C25 - RSVP integration. *)

\* C25: every PUT /:id/rsvp answered 200 that changed the status of a guest
\* whose event has an owner to confirmed (declined) is followed by a state
\* in which a notification of type GUEST_CONFIRMED (GUEST_DECLINED) of the
\* owner exists for the route's event, and the owner has more
\* notifications than when the request arrived.
C25_RsvpNotifies ==
  \A k \in 1..MaxRsvps :
    (/\ k \in DOMAIN rsvps
     /\ rsvps[k].pc = "done" /\ rsvps[k].code = 200
     /\ rsvps[k].found # None
     /\ rsvps[k].found[1].status # rsvps[k].status
     /\ rsvps[k].found[1].owner # None)
    ~> (/\ k \in DOMAIN rsvps
        /\ rsvps[k].found # None /\ rsvps[k].found[1].owner # None
        /\ \E n \in DOMAIN notifications :
             /\ notifications[n].userId = rsvps[k].found[1].owner[1]
             /\ notifications[n].data = rsvps[k].ev
             /\ notifications[n].type =
                  IF rsvps[k].status = "confirmed" THEN "GUEST_CONFIRMED"
                  ELSE "GUEST_DECLINED"
        /\ Cardinality({n \in DOMAIN notifications :
              notifications[n].userId = rsvps[k].found[1].owner[1]})
             > rsvps[k].countBefore)

\* A guest confirmed and then declined: both requests were answered 200 and
\* the owner has a GUEST_CONFIRMED and a GUEST_DECLINED notification.
C25_Witness ==
  /\ Len(rsvps) = 2
  /\ rsvps[1].status = "confirmed" /\ rsvps[2].status = "declined"
  /\ rsvps[1].guest = "g1" /\ rsvps[2].guest = "g1"
  /\ rsvps[1].code = 200 /\ rsvps[2].code = 200
  /\ rsvps[2].countBefore = 1
  /\ \E n \in DOMAIN notifications :
       /\ notifications[n].type = "GUEST_CONFIRMED"
       /\ notifications[n].userId = "u1" /\ notifications[n].data = rsvps[1].ev
  /\ \E n \in DOMAIN notifications :
       /\ notifications[n].type = "GUEST_DECLINED"
       /\ notifications[n].userId = "u1" /\ notifications[n].data = rsvps[2].ev

----------------------------------------------------------------------------
(* C26 - WebSocket authentication. *)

\* C26: the socket mapped to a user has presented a valid token of that
\* user, and a notification of a user is only ever emitted on a socket
\* that has presented a valid token of that user.
C26_TokenValidated ==
  /\ \A u \in Users :
       connectedUsers[u] # None => u \in sockets[connectedUsers[u][1]].proved
  /\ (lastSend # None /\ lastSend[1].socket # None) =>
       lastSend[1].userId \in sockets[lastSend[1].socket[1]].proved

----------------------------------------------------------------------------
(* C30 - consistency of the connection registry. *)

\* C30: a user with a connected socket whose userId is the user's is
\* reported connected, and a send to that user does not fail for lack of a
\* connection; the socket mapped to a user is connected and has
\* authenticated as that user.
C30_RegistryConsistent ==
  /\ \A u \in Users :
       (\E s \in DOMAIN sockets :
          sockets[s].connected /\ sockets[s].userId = Some(u))
         => IsUserConnected(u)
  /\ \A u \in Users :
       connectedUsers[u] # None =>
         /\ sockets[connectedUsers[u][1]].connected
         /\ u \in sockets[connectedUsers[u][1]].authAs
  /\ (lastSend # None /\ lastSend[1].live # {}) => lastSend[1].success

----------------------------------------------------------------------------
(* C27 - the lifecycle of a notification. *)

\* C27: every step keeps every notification in the table with its userId,
\* type and data, never turns a read notification unread, turns an unread
\* one read only in a markAsRead or mark-all-read call of its owner, and
\* inserts new notifications unread; this holds whether the deliveries of
\* the notification end SENT or FAILED.
C27_Lifecycle ==
  [][/\ \A n \in DOMAIN notifications :
          /\ n \in DOMAIN notifications'
          /\ notifications'[n].userId = notifications[n].userId
          /\ notifications'[n].type = notifications[n].type
          /\ notifications'[n].data = notifications[n].data
          /\ notifications[n].read => notifications'[n].read
          /\ (~notifications[n].read /\ notifications'[n].read) =>
               /\ lastCall' # None
               /\ lastCall'[1].op \in {"markAsRead", "markAllRead"}
               /\ lastCall'[1].userId = notifications[n].userId
               /\ lastCall'[1].before = notifications
     /\ \A n \in DOMAIN notifications' \ DOMAIN notifications :
          ~notifications'[n].read]_vars

\* The owner has marked a notification read whose email delivery ended
\* FAILED and whose websocket delivery ended SENT, and another
\* notification is unread.
C27_Witness ==
  /\ lastCall # None /\ lastCall[1].op = "markAsRead"
  /\ \E i \in DOMAIN pipelines :
       /\ pipelines[i].pc = "done" /\ pipelines[i].nid # 0
       /\ notifications[pipelines[i].nid].read
       /\ lastCall[1].id = pipelines[i].nid
       /\ deliveryLog[<<i, "email">>].status = "FAILED"
       /\ deliveryLog[<<i, "websocket">>].status = "SENT"
  /\ \E n \in DOMAIN notifications : ~notifications[n].read

----------------------------------------------------------------------------
(* C29 - failure bookkeeping is scoped to the failing attempt. *)

\* C29: the step in which a channel attempt leaves its catch branch, that
\* is its updateMany, changes no delivery log row but the row the attempt
\* itself inserted.
C29_FailureScoped ==
  [][\A i \in DOMAIN pipelines, c \in ChannelNames :
       (pipelines[i].att[c].st = "catch" /\ pipelines'[i].att[c].st # "catch") =>
         \A id \in DOMAIN deliveryLog :
           id # <<i, c>> =>
             /\ id \in DOMAIN deliveryLog'
             /\ deliveryLog'[id] = deliveryLog[id]]_vars

====
